---- MODULE Spec2Model ----
(***************************************************************************)
(* rust-hkt: the associated-type encoding of higher-kinded types           *)
(* (trait HKT), the Functor capability built on it, and its one instance,  *)
(* Option<T>.  The model is a client that owns one container x and calls   *)
(* fmap on it (through each of the three impls), chains a second fmap on   *)
(* the value the first returned, or passes it to double_in_context.        *)
(***************************************************************************)
EXTENDS Integers, Sequences, TLC

\* Element samples: the i32 values 0..MaxInt and as many strings.
MaxInt == 1

(***************************************************************************)
(* Values.  Rust values are typed; an element carries its type so that a   *)
(* String never compares equal to an i32.                                  *)
(***************************************************************************)
TypeNames == {"i32", "String"}

I32(n) == [ty |-> "i32", n |-> n]

Str(s) == [ty |-> "String", s |-> s]

Sample(ty) ==
    IF ty = "i32"
    THEN {I32(n) : n \in 0..MaxInt}
    ELSE {Str("")} \cup {Str(ToString(n)) : n \in 1..MaxInt}

\* v is a value of the element type ty.
IsValue(v, ty) ==
    /\ v.ty = ty
    /\ ty = "i32" => (v.n >= -2147483647 - 1 /\ v.n <= 2147483647)

\* Option<T>: the two variants.
None == [tag |-> "None"]

Some(v) == [tag |-> "Some", value |-> v]

\* The type Option<A>, and what inhabits it.
OptionOf(A) == [ctor |-> "Option", arg |-> A]

Inhabits(o, ty) ==
    /\ ty.ctor = "Option"
    /\ o.tag \in {"None", "Some"}
    /\ o.tag = "Some" => IsValue(o.value, ty.arg)

(***************************************************************************)
(* Closures F: Fn(&C) -> U.  The two the doc tests pass, a conversion back *)
(* from String, the identity, and the total functions                      *)
(* |v| if *v == k { a } else { b } within one type.                         *)
(***************************************************************************)
double == [name |-> "double", C |-> "i32", U |-> "i32"]

to_string == [name |-> "format", C |-> "i32", U |-> "String"]

len == [name |-> "len", C |-> "String", U |-> "i32"]

identity(ty) == [name |-> "id", C |-> ty, U |-> ty]

Match(ty) ==
    {[name |-> "match", C |-> ty, U |-> ty, k |-> k, a |-> a, b |-> b] :
        k \in Sample(ty), a \in Sample(ty), b \in Sample(ty)}

Closures ==
    {double, to_string, len}
        \cup {identity(ty) : ty \in TypeNames}
        \cup UNION {Match(ty) : ty \in TypeNames}

\* |v| g(f(v))
Compose(g, f) == [name |-> "compose", C |-> f.C, U |-> g.U, g |-> g, f |-> f]

RECURSIVE Call(_, _)
\* f(v).  The samples stay far below i32::MAX, so i * 2 never overflows.
Call(f, v) ==
    CASE f.name = "double"  -> I32(v.n * 2)
      [] f.name = "format"  -> Str(ToString(v.n))
      [] f.name = "len"     -> I32(Len(v.s))
      [] f.name = "id"      -> v
      [] f.name = "match"   -> IF v = f.k THEN f.a ELSE f.b
      [] f.name = "compose" -> Call(f.g, Call(f.f, v))

(***************************************************************************)
(* trait HKT<U> and impl<T, U> HKT<U> for Option<T>, in both modules.      *)
(***************************************************************************)
part2_HKT_C(Self) == Self.arg

\* Mutation: type T = Option<T>, the element type left as it was.
part2_HKT_T_unapplied(Self, U) == OptionOf(Self.arg)

part2_HKT_T(Self, U) == OptionOf(U)

part2_alternate_HKT_C(Self) == Self.arg

part2_alternate_HKT_T(Self, U) == OptionOf(U)

(***************************************************************************)
(* fmap.  A call yields the value returned (ret), the receiver as the call *)
(* leaves it (recv: &self with a ref pattern moves nothing out), and the   *)
(* arguments f was invoked with, in order (invoked).                       *)
(***************************************************************************)
\* Mutation: Some(ref value) => Some(value.clone()), f never applied.
part2_Functor_fmap_unapplied(self, f) ==
    IF self.tag = "Some"
    THEN [ret |-> Some(self.value), recv |-> self, invoked |-> <<>>]
    ELSE [ret |-> None, recv |-> self, invoked |-> <<>>]

\* Mutation: a result equal to zero is taken for "nothing".
part2_Functor_fmap_falsy(self, f) ==
    IF self.tag = "Some" /\ Call(f, self.value) # I32(0)
    THEN [ret |-> Some(Call(f, self.value)), recv |-> self,
          invoked |-> <<self.value>>]
    ELSE [ret |-> None, recv |-> self,
          invoked |-> IF self.tag = "Some" THEN <<self.value>> ELSE <<>>]

\* Mutation: both arms yield None.
part2_Functor_fmap_none(self, f) ==
    [ret |-> None, recv |-> self, invoked |-> <<>>]

\* Mutation: f is evaluated once more than needed (a stray f(value) before
\* the match result is built).
part2_Functor_fmap_twice(self, f) ==
    IF self.tag = "Some"
    THEN [ret |-> Some(Call(f, self.value)), recv |-> self,
          invoked |-> <<self.value, self.value>>]
    ELSE [ret |-> None, recv |-> self, invoked |-> <<>>]

\* Mutation: the value is moved out of the receiver (self.take()).
part2_Functor_fmap_take(self, f) ==
    IF self.tag = "Some"
    THEN [ret |-> Some(Call(f, self.value)), recv |-> None,
          invoked |-> <<self.value>>]
    ELSE [ret |-> None, recv |-> self, invoked |-> <<>>]

part2_Functor_fmap(self, f) ==
    IF self.tag = "Some"
    THEN [ret |-> Some(Call(f, self.value)), recv |-> self,
          invoked |-> <<self.value>>]
    ELSE [ret |-> None, recv |-> self, invoked |-> <<>>]

\* Mutation: Functor2's copy of the body applies nothing.
part2_Functor2_fmap_unapplied(self, f) ==
    IF self.tag = "Some"
    THEN [ret |-> Some(self.value), recv |-> self, invoked |-> <<>>]
    ELSE [ret |-> None, recv |-> self, invoked |-> <<>>]

part2_Functor2_fmap(self, f) ==
    IF self.tag = "Some"
    THEN [ret |-> Some(Call(f, self.value)), recv |-> self,
          invoked |-> <<self.value>>]
    ELSE [ret |-> None, recv |-> self, invoked |-> <<>>]

\* Mutation: the Some arm yields None.
part2_alternate_Functor_fmap_none(self, f) ==
    [ret |-> None, recv |-> self, invoked |-> <<>>]

part2_alternate_Functor_fmap(self, f) ==
    IF self.tag = "Some"
    THEN [ret |-> Some(Call(f, self.value)), recv |-> self,
          invoked |-> <<self.value>>]
    ELSE [ret |-> None, recv |-> self, invoked |-> <<>>]

\* Mutation: the closure passed on does not double.
part2_double_in_context_undoubled(f) == part2_Functor_fmap(f, identity("i32"))

\* The doc tests' generic function: f.fmap(|i| i * 2).
part2_double_in_context(f) == part2_Functor_fmap(f, double)

part2_alternate_double_in_context(f) == part2_alternate_Functor_fmap(f, double)

FmapOps == {"part2::Functor", "part2::Functor2", "part2_alternate::Functor"}

GenericOps == {"part2::double_in_context", "part2_alternate::double_in_context"}

\* Method dispatch: the impl a call resolves to.
Dispatch(op, self, f) ==
    CASE op = "part2::Functor"           -> part2_Functor_fmap(self, f)
      [] op = "part2::Functor2"          -> part2_Functor2_fmap(self, f)
      [] op = "part2_alternate::Functor" -> part2_alternate_Functor_fmap(self, f)
      [] op = "part2::double_in_context" -> part2_double_in_context(self)
      [] op = "part2_alternate::double_in_context" ->
             part2_alternate_double_in_context(self)

\* Self::C and Self::T as the module of the call resolves them.
CurrentOf(op, Self) ==
    IF op \in {"part2_alternate::Functor", "part2_alternate::double_in_context"}
    THEN part2_alternate_HKT_C(Self)
    ELSE part2_HKT_C(Self)

AppliedOf(op, Self, U) ==
    IF op \in {"part2_alternate::Functor", "part2_alternate::double_in_context"}
    THEN part2_alternate_HKT_T(Self, U)
    ELSE part2_HKT_T(Self, U)

\* The double_in_context written against the trait in scope (the doc tests
\* define it for part2::Functor and for part2_alternate::Functor).
GenericOf(op) ==
    IF op = "part2::Functor" THEN "part2::double_in_context"
    ELSE "part2_alternate::double_in_context"

(***************************************************************************)
(* State.                                                                  *)
(*   scope   the trait the client imports (use rust_hkt::...::Functor)     *)
(*   T       the element type of the client's container                    *)
(*   x       the container, an Option<T>                                   *)
(*   first   the last call made on x                                       *)
(*   second  the call chained on first's return value, if any              *)
(*   repeat  the last call on x passed the closure the one before passed   *)
(***************************************************************************)
VARIABLES scope, T, x, first, second, repeat

vars == <<scope, T, x, first, second, repeat>>

NoCall == [op |-> "none"]

\* What the client keeps of a call.
CallRecord(op, Self, self, f, out) ==
    [op |-> op, Self |-> Self, recv |-> self, f |-> f,
     RetTy |-> AppliedOf(op, Self, f.U),
     ret |-> out.ret, invoked |-> out.invoked]

Init ==
    /\ scope \in FmapOps
    /\ T \in TypeNames
    /\ x \in {None} \cup {Some(v) : v \in Sample(T)}
    /\ first = NoCall
    /\ second = NoCall
    /\ repeat = FALSE

\* x.fmap(f) where F: Fn(&Self::C) -> U.
Fmap ==
    \E f \in Closures :
        /\ f.C = CurrentOf(scope, OptionOf(T))
        /\ LET out == Dispatch(scope, x, f)
           IN /\ x' = out.recv
              /\ first' = CallRecord(scope, OptionOf(T), x, f, out)
        /\ second' = NoCall
        /\ repeat' = (first.op \in FmapOps /\ first.f = f)
        /\ UNCHANGED <<scope, T>>

\* x.fmap(f).fmap(g): a second fmap, on the temporary the first returned.
Chain ==
    \E g \in Closures :
        /\ first.op \in FmapOps
        /\ second = NoCall
        /\ g.C = CurrentOf(scope, first.RetTy)
        /\ LET out == Dispatch(scope, first.ret, g)
           IN second' = CallRecord(scope, first.RetTy, first.ret, g, out)
        /\ UNCHANGED <<scope, T, x, first, repeat>>

\* double_in_context(x) where F: Functor<i32, C = i32>; Option<i32> is Copy,
\* so the client keeps x.
DoubleInContext ==
    /\ scope \in {"part2::Functor", "part2_alternate::Functor"}
    /\ CurrentOf(scope, OptionOf(T)) = "i32"
    /\ LET op == GenericOf(scope)
           out == Dispatch(op, x, double)
       IN /\ x' = out.recv
          /\ first' = CallRecord(op, OptionOf(T), x, double, out)
    /\ second' = NoCall
    /\ repeat' = FALSE
    /\ UNCHANGED <<scope, T>>

Next ==
    \/ Fmap
    \/ Chain
    \/ DoubleInContext

Spec == Init /\ [][Next]_vars

(***************************************************************************)
(* Properties.                                                             *)
(***************************************************************************)
IsCall(c) == c.op # "none"

IsFmap(c) == c.op \in FmapOps

FmapResult(c) ==
    IsFmap(c) =>
        /\ c.recv.tag = "Some" => c.ret = Some(Call(c.f, c.recv.value))
        /\ c.recv.tag = "None" => c.ret = None
        /\ (c.recv = Some(I32(1)) /\ c.f = double) => c.ret = Some(I32(2))

\* C1: fmap of Some(v) with f returns Some(f(v)) and fmap of None returns
\* None; Some(1).fmap(|i| i * 2) is Some(2).
C1_FmapResult == FmapResult(first) /\ FmapResult(second)

C1_Witness ==
    /\ first.op = "part2::Functor"
    /\ first.recv = Some(I32(1))
    /\ first.f = double
    /\ first.ret = Some(I32(2))

IdentityLaw(c) == (IsFmap(c) /\ c.f.name = "id") => c.ret = c.recv

\* C2: identity law: fmap with the identity function returns a container
\* equal to its receiver.
C2_IdentityLaw == IdentityLaw(first) /\ IdentityLaw(second)

C2_Witness ==
    /\ first.op = "part2_alternate::Functor"
    /\ first.f.name = "id"
    /\ first.recv.tag = "Some"
    /\ first.ret = first.recv

\* C3: composition law: x.fmap(f).fmap(g) equals x.fmap(|v| g(f(v))), for
\* x present or absent.
C3_CompositionLaw ==
    IsCall(second) =>
        second.ret = Dispatch(scope, first.recv, Compose(second.f, first.f)).ret

C3_Witness ==
    /\ IsCall(second)
    /\ scope = "part2::Functor"
    /\ first.recv = Some(I32(1))
    /\ first.f = double
    /\ second.f = to_string
    /\ second.ret = Some(Str("2"))

ShapePreserved(c) == IsFmap(c) => c.ret.tag = c.recv.tag

\* C4: shape preservation: the result of fmap is present exactly when its
\* receiver is.
C4_ShapePreserved == ShapePreserved(first) /\ ShapePreserved(second)

C4_Witness ==
    /\ IsFmap(first)
    /\ first.recv.tag = "Some"
    /\ first.ret.tag = "Some"
    /\ first.f.name = "match"
    /\ first.ret.value # first.recv.value

InvokedOnce(c) ==
    IsFmap(c) =>
        /\ c.recv.tag = "None" => c.invoked = <<>>
        /\ c.recv.tag = "Some" => c.invoked = <<c.recv.value>>

\* C5: fmap on None never invokes the function; on Some(v) it invokes the
\* function exactly once, on v.
C5_InvokedOnce == InvokedOnce(first) /\ InvokedOnce(second)

C5_Witness ==
    /\ IsFmap(first)
    /\ IsFmap(second)
    /\ first.recv.tag = "Some"
    /\ Len(first.invoked) = 1
    /\ Len(second.invoked) = 1

\* C7: double_in_context is callable on an Option<i32> and returns what the
\* direct call x.fmap(|i| i * 2) returns: Some(2) for Some(1), None for None.
C7_DoubleInContext ==
    first.op \in GenericOps =>
        /\ first.Self = OptionOf("i32")
        /\ first.ret = Dispatch(scope, first.recv, double).ret
        /\ first.recv = Some(I32(1)) => first.ret = Some(I32(2))
        /\ first.recv = None => first.ret = None

C7_Witness ==
    /\ first.op = "part2::double_in_context"
    /\ first.recv = Some(I32(1))
    /\ first.ret = Some(I32(2))

TypeApplication(c) ==
    IsCall(c) =>
        /\ CurrentOf(c.op, c.Self) = c.f.C
        /\ c.RetTy = OptionOf(c.f.U)
        /\ Inhabits(c.ret, c.RetTy)

\* C8: for Option<T>, Current is T and Applied(U) is Option<U>: what fmap
\* returns for a function into U is None or a Some holding a U.
C8_TypeApplication ==
    /\ CurrentOf(scope, OptionOf(T)) = T
    /\ \A U \in TypeNames : AppliedOf(scope, OptionOf(T), U) = OptionOf(U)
    /\ IsCall(first) => first.Self = OptionOf(T)
    /\ TypeApplication(first)
    /\ TypeApplication(second)

C8_Witness ==
    /\ IsCall(second)
    /\ scope = "part2::Functor"
    /\ T = "i32"
    /\ first.f = to_string
    /\ first.ret.tag = "Some"
    /\ first.RetTy = OptionOf("String")
    /\ second.f = len
    /\ second.RetTy = OptionOf("i32")

SameDesign(c) ==
    IsFmap(c) =>
        /\ part2_Functor_fmap(c.recv, c.f).ret = c.ret
        /\ part2_Functor2_fmap(c.recv, c.f).ret = c.ret
        /\ part2_alternate_Functor_fmap(c.recv, c.f).ret = c.ret

\* C9: part2::Functor, part2::Functor2 and part2_alternate::Functor return
\* equal results for every receiver and function.
C9_SameDesign == SameDesign(first) /\ SameDesign(second)

C9_Witness ==
    /\ first.op = "part2::Functor2"
    /\ first.recv.tag = "Some"
    /\ first.f = double
    /\ first.ret = part2_alternate_Functor_fmap(first.recv, first.f).ret

ReadOnlyStep ==
    /\ x' = x
    /\ IsCall(first') => first'.recv = x
    /\ (IsFmap(first) /\ IsFmap(first') /\ first'.f = first.f) =>
           first'.ret = first.ret

\* C10: a call leaves the container as it was, and a call repeated with the
\* same function returns what it returned before.
C10_ReadOnly == [][ReadOnlyStep]_vars

C10_Witness ==
    /\ repeat
    /\ x.tag = "Some"
    /\ first.recv = x
    /\ first.ret.tag = "Some"

====
